---- MODULE Spec2Model ----
(***************************************************************************)
(* Model of the token-based distributed lock of                            *)
(* src/labs/src/modules/Server/Lock/distributedLock.py (DistributedLock). *)
(*                                                                         *)
(* One logical thread per peer: the peer's main/client thread.  A remote   *)
(* call is synchronous (orb.Stub._rmi), so the handler that serves it on   *)
(* the remote peer is modelled as a frame of the caller's logical thread:  *)
(*   acquire@t -> request_token@j -> release@j -> obtain_token@k           *)
(*   release@t -> obtain_token@k                                           *)
(* Each handler frame is its own OS thread on the peer it runs on          *)
(* (orb.Request), which is what the monitor ownership below tracks.        *)
(*                                                                         *)
(* A step of the model is one stretch of code executed between two         *)
(* monitor operations (acquire/release/wait) of self.peer_list.lock, or    *)
(* one read that the code performs outside the monitor.                    *)
(***************************************************************************)
EXTENDS Integers, Sequences, FiniteSets, TLC

(* distributedLock.py:31-33 *)
NO_TOKEN == 0
TOKEN_PRESENT == 1
TOKEN_HELD == 2

(* Bounds of the model. *)
NumPeers == 3
MaxAcquires == 3
MaxActive == 2
FairPeers == 2
FairAcquires == 5
WireKeys == 3
WireStamp == 2
OrderPeers == 4
OrderStamp == 1
FailAcquires == 3
DestroyAcquires == 2
MaxCrashes == 1
MaxDestroys == 1

Peers == 1..NumPeers

VARIABLES
    state,      \* state[p]   : self.state of peer p
    time,       \* time[p]    : self.time (logical clock)
    request,    \* request[p] : self.request, a dict peer id -> timestamp
    token,      \* token[p]   : self.token, a dict peer id -> timestamp
    tokenNone,  \* tokenNone[p]: self.token is None (before initialize)
    members,    \* members[p] : ids in self.peer_list (own id excluded)
    lock,       \* lock[p]    : who is left owning self.peer_list.lock between steps
    pc,         \* pc[t]      : position of logical thread t
    todo,       \* todo[t]    : peers still to be called by the loop of t
    arg,        \* arg[t]     : time argument of the request_token call in flight
    relAt,      \* relAt[t]   : peer on which the release() frame of t runs (0: none)
    relTo,      \* relTo[t]   : peer the release() frame of t sends the token to
    msg,        \* msg[t]     : wire form of the token in flight in t's obtain_token call
    left,       \* left       : acquire() calls the clients will still make
    relOrder,   \* relOrder[t]: candidates the loop of t's release()/destroy() has still to visit
    depth,      \* depth[p]   : acquisitions of the monitor that p's client thread has not released
    alive,      \* alive[p]   : the process of peer p runs and answers calls
    inDestroy,  \* inDestroy[t]: the client of t is inside destroy()
    pin,        \* input of the pure-function specifications
    pout        \* their output

vars == <<state, time, request, token, tokenNone, members, lock, pc, todo, arg,
          relAt, relTo, msg, left, relOrder, depth, alive, inDestroy, pin, pout>>

lockVars == <<state, time, request, token, tokenNone, members, lock>>
threadVars == <<pc, todo, arg, relAt, relTo, msg, left>>
pureVars == <<pin, pout>>
failVars == <<relOrder, depth, alive, inDestroy>>

Max(a, b) == IF a > b THEN a ELSE b

(* The clients that are between the start of an acquire() and the end of the *)
(* release() that follows it.  The environment starts an acquire() only when  *)
(* fewer than MaxActive clients are active, while it has calls left, and when *)
(* no peer is in the middle of its start-up.                                  *)
Active == {t \in Peers : pc[t] \notin {"unborn", "join", "join_lock", "init", "idle",
                                         "crashed", "raised", "gone"}}

(***************************************************************************)
(* Dicts are functions; assigning d[k] = v adds the key when missing.      *)
(***************************************************************************)
Put(d, k, v) == [x \in (DOMAIN d) \cup {k} |-> IF x = k THEN v ELSE d[x]]

RECURSIVE Ascending(_)
Ascending(S) ==
    IF S = {} THEN <<>>
    ELSE LET m == CHOOSE x \in S : \A y \in S : x <= y
         IN  <<m>> \o Ascending(S \ {m})

(* peer_list.get_peers(): the ordered ids of the known peers, own id excluded. *)
get_peers(p) == Ascending(members[p])

(* _prepare that loses the last entry. *)
_prepare_short(tok) ==
    LET keys == Ascending(DOMAIN tok)
    IN  [i \in 1..(Len(keys) - 1) |-> <<keys[i], tok[keys[i]]>>]

(* _prepare: list(token.items()), the list of [peer_id, timestamp] entries. The *)
(* entries are listed by ascending key; the order is not observable, the        *)
(* receiver rebuilds a dict.                                                    *)
_prepare(tok) ==
    LET keys == Ascending(DOMAIN tok)
    IN  [i \in 1..Len(keys) |-> <<keys[i], tok[keys[i]]>>]

(* _unprepare: dict(list of pairs); a later pair overwrites an earlier one. *)
RECURSIVE _unprepare(_)
_unprepare(wire) ==
    IF wire = <<>> THEN <<>>
    ELSE LET n == Len(wire)
         IN  Put(_unprepare(SubSeq(wire, 1, n - 1)), wire[n][1], wire[n][2])

(* get_order with the two halves swapped. *)
get_order_lower_first(own, peers) ==
    SelectSeq(peers, LAMBDA x : x < own) \o SelectSeq(peers, LAMBDA x : x > own)

(* get_order: ids above the own id, then ids below it, each in get_peers order. *)
get_order(own, peers) ==
    SelectSeq(peers, LAMBDA x : x > own) \o SelectSeq(peers, LAMBDA x : x < own)

(* The loop of release(): the first peer of the order with request > token, 0 if *)
(* none; -1 when the loop reaches a peer without an entry in one of the vectors *)
(* first (KeyError at line 240).                                                *)
RECURSIVE FirstClaimant(_, _, _)
FirstClaimant(order, req, tok) ==
    IF order = <<>> THEN 0
    ELSE IF Head(order) \notin DOMAIN req \/ Head(order) \notin DOMAIN tok THEN -1
    ELSE IF req[Head(order)] > tok[Head(order)] THEN Head(order)
    ELSE FirstClaimant(Tail(order), req, tok)

(* The part of the order that the loop of release() has still to visit once it *)
(* has stopped at k.                                                           *)
RECURSIVE After(_, _)
After(order, k) ==
    IF order = <<>> THEN <<>>
    ELSE IF Head(order) = k THEN Tail(order)
    ELSE After(Tail(order), k)

(* The loop of obtain_token without the clock update of line 287. *)
RECURSIVE MergeToken_no_clock(_, _, _)
MergeToken_no_clock(tok, clk, items) ==
    IF items = <<>> THEN [token |-> tok, time |-> clk]
    ELSE LET e == Head(items)
         IN  MergeToken_no_clock(Put(tok, e[1], e[2]), clk, Tail(items))

(* The loop of obtain_token over the received entries. lines 285-287 *)
RECURSIVE MergeToken(_, _, _)
MergeToken(tok, clk, items) ==
    IF items = <<>> THEN [token |-> tok, time |-> clk]
    ELSE LET e == Head(items)
         IN  MergeToken(Put(tok, e[1], e[2]), Max(clk, e[2] + 1), Tail(items))

(***************************************************************************)
(* The monitor self.peer_list.lock (a condition variable over a re-entrant *)
(* lock).  Every step below takes and gives back the monitor, so between   *)
(* steps it is owned only when a release() returned without giving it      *)
(* back: by the peer's client thread ("client"), which may re-enter it, or *)
(* by a handler thread that has ended ("dead").  A client blocked in       *)
(* wait() has given the monitor up for the duration of the wait.           *)
(***************************************************************************)
CanLock(p, isClient) ==
    \/ lock[p] = "free"
    \/ lock[p] = "client" /\ (isClient \/ pc[p] \in {"acq_wait", "acq_woken"})

(* __init__ of every peer (lines 54-60), no thread started. *)
InitLock ==
    /\ state = [p \in Peers |-> NO_TOKEN]
    /\ time = [p \in Peers |-> 0]
    /\ request = [p \in Peers |-> <<>>]
    /\ token = [p \in Peers |-> <<>>]
    /\ tokenNone = [p \in Peers |-> TRUE]
    /\ members = [p \in Peers |-> {}]
    /\ lock = [p \in Peers |-> "free"]
    /\ pc = [p \in Peers |-> "unborn"]
    /\ todo = [p \in Peers |-> <<>>]
    /\ arg = [p \in Peers |-> 0]
    /\ relAt = [p \in Peers |-> 0]
    /\ relTo = [p \in Peers |-> 0]
    /\ msg = [p \in Peers |-> <<>>]
    /\ relOrder = [p \in Peers |-> <<>>]
    /\ depth = [p \in Peers |-> 0]
    /\ alive = [p \in Peers |-> TRUE]
    /\ inDestroy = [p \in Peers |-> FALSE]

Init ==
    /\ InitLock
    /\ left = MaxAcquires
    /\ pin = <<>>
    /\ pout = <<>>


(***************************************************************************)
(* Start-up of a peer.  The name service hands out increasing ids; a peer  *)
(* starts once the peers before it are up.  It fills its peer list with    *)
(* the peers already registered, tells each of them (register_peer) and    *)
(* then initializes its lock.                                              *)
(***************************************************************************)
Start(q) ==
    /\ pc[q] = "unborn"
    /\ \A p \in Peers : p < q => pc[p] \notin {"unborn", "join", "join_lock", "init"}
    /\ members' = [members EXCEPT ![q] = {p \in Peers : p < q}]
    /\ todo' = [todo EXCEPT ![q] = Ascending({p \in Peers : p < q})]
    /\ pc' = [pc EXCEPT ![q] = IF q = 1 THEN "init" ELSE "join"]
    /\ UNCHANGED <<state, time, request, token, tokenNone, lock, arg, relAt, relTo,
                   msg, left, pureVars, failVars>>

(* The peer list of r learns the joining peer q, under the monitor of r, before *)
(* the lock of r is told (register_peer).                                       *)
PeerListRegister(q) ==
    /\ pc[q] = "join"
    /\ LET r == Head(todo[q]) IN
        /\ CanLock(r, FALSE)
        /\ members' = [members EXCEPT ![r] = @ \cup {q}]
    /\ pc' = [pc EXCEPT ![q] = "join_lock"]
    /\ UNCHANGED <<state, time, request, token, tokenNone, lock, todo, arg, relAt, relTo,
                   msg, left, pureVars, failVars>>

(* register_peer(pid) on peer r, called for the joining peer q. lines 166-172 *)
RegisterPeerStep(r, pid) ==
    /\ time' = [time EXCEPT ![r] = @ + 1]
    /\ request' = [request EXCEPT ![r] = Put(@, pid, 0)]
    /\ token' = [token EXCEPT ![r] = Put(@, pid, 0)]

RegisterPeer(q) ==
    /\ pc[q] = "join_lock"
    /\ LET r == Head(todo[q]) IN
        /\ CanLock(r, FALSE)
        /\ RegisterPeerStep(r, q)
    /\ todo' = [todo EXCEPT ![q] = Tail(@)]
    /\ pc' = [pc EXCEPT ![q] = IF Tail(todo[q]) = <<>> THEN "init" ELSE "join"]
    /\ UNCHANGED <<state, tokenNone, members, lock, arg, relAt, relTo, msg, left, pureVars,
                   failVars>>

(* initialize() that takes the token whatever the peer list holds. *)
Initialize_takes_token(q) ==
    /\ pc[q] = "init"
    /\ CanLock(q, TRUE)
    /\ LET zero == [x \in {q} \cup members[q] |-> 0] IN
        /\ request' = [request EXCEPT ![q] = zero]
        /\ token' = [token EXCEPT ![q] = zero]
        /\ tokenNone' = [tokenNone EXCEPT ![q] = FALSE]
        /\ state' = [state EXCEPT ![q] = TOKEN_PRESENT]
    /\ pc' = [pc EXCEPT ![q] = "idle"]
    /\ UNCHANGED <<time, members, lock, todo, arg, relAt, relTo, msg, left, pureVars, failVars>>

(* initialize(). lines 88-125 *)
Initialize(q) ==
    /\ pc[q] = "init"
    /\ CanLock(q, TRUE)
    /\ LET peers == get_peers(q)
           zero == [x \in {q} \cup members[q] |-> 0]
       IN
        /\ request' = [request EXCEPT ![q] = zero]
        /\ token' = [token EXCEPT ![q] = zero]
        /\ tokenNone' = [tokenNone EXCEPT ![q] = FALSE]
        /\ state' = [state EXCEPT ![q] = IF peers # <<>> THEN @ ELSE TOKEN_PRESENT]
    /\ pc' = [pc EXCEPT ![q] = "idle"]
    /\ UNCHANGED <<time, members, lock, todo, arg, relAt, relTo, msg, left, pureVars, failVars>>

(***************************************************************************)
(* acquire(). lines 183-220                                                *)
(***************************************************************************)
(* lines 216-220: enter the critical section *)
EnterCS(t, clk) ==
    /\ state' = [state EXCEPT ![t] = TOKEN_HELD]
    /\ token' = [token EXCEPT ![t] = Put(@, t, clk)]

(* lines 186-197: up to the first lock.release() of the loop, or to the end *)
AcquireEnter(t) ==
    /\ pc[t] = "idle"
    /\ left > 0
    /\ Cardinality(Active) < MaxActive
    /\ \A p \in Peers : pc[p] \notin {"join", "join_lock", "init"}
    /\ CanLock(t, TRUE)
    /\ left' = left - 1
    /\ time' = [time EXCEPT ![t] = @ + 1]
    /\ IF state[t] = NO_TOKEN
       THEN /\ todo' = [todo EXCEPT ![t] = get_peers(t)]
            /\ pc' = [pc EXCEPT ![t] = IF get_peers(t) = <<>> THEN "acq_wait"
                                       ELSE "acq_send"]
            /\ UNCHANGED <<state, token>>
       ELSE \* line 188 is false: straight to line 216
            /\ EnterCS(t, time'[t])
            /\ pc' = [pc EXCEPT ![t] = "cs"]
            /\ UNCHANGED todo
    /\ UNCHANGED <<request, tokenNone, members, lock, arg, relAt, relTo, msg, pureVars, failVars>>

(* line 198: the arguments self.time, self.owner.id are read with the monitor released *)
AcquireSend(t) ==
    /\ pc[t] = "acq_send"
    /\ arg' = [arg EXCEPT ![t] = time[t]]
    /\ pc' = [pc EXCEPT ![t] = "req_enter"]
    /\ UNCHANGED <<lockVars, todo, relAt, relTo, msg, left, pureVars, failVars>>

(* lines 207-215: finally lock.acquire(), next iteration or the wait loop *)
AcquireNext(t) ==
    /\ pc[t] = "acq_ret"
    /\ CanLock(t, TRUE)
    /\ todo' = [todo EXCEPT ![t] = Tail(@)]
    /\ IF Tail(todo[t]) # <<>>
       THEN /\ pc' = [pc EXCEPT ![t] = "acq_send"]
            /\ UNCHANGED <<state, token>>
       ELSE IF state[t] = TOKEN_PRESENT
       THEN /\ EnterCS(t, time[t])
            /\ pc' = [pc EXCEPT ![t] = "cs"]
       ELSE /\ pc' = [pc EXCEPT ![t] = "acq_wait"]
            /\ UNCHANGED <<state, token>>
    /\ UNCHANGED <<time, request, tokenNone, members, lock, arg, relAt, relTo, msg,
                   left, pureVars, failVars>>

(* lines 212-220: wait() returns after a notify_all, the loop tests the state again *)
AcquireWake(t) ==
    /\ pc[t] = "acq_woken"
    /\ CanLock(t, TRUE)
    /\ IF state[t] = TOKEN_PRESENT
       THEN /\ EnterCS(t, time[t])
            /\ pc' = [pc EXCEPT ![t] = "cs"]
       ELSE /\ pc' = [pc EXCEPT ![t] = "acq_wait"]
            /\ UNCHANGED <<state, token>>
    /\ UNCHANGED <<time, request, tokenNone, members, lock, todo, arg, relAt, relTo,
                   msg, left, pureVars, failVars>>

(***************************************************************************)
(* request_token(time, pid) on peer j = Head(todo[t]). lines 268-275       *)
(***************************************************************************)
(* lines 270-273 with a clock that takes the larger time without the +1 *)
RequestTokenStep_no_tick(j, reqTime, pid) ==
    LET clk == Max(time[j], reqTime) IN
    /\ time' = [time EXCEPT ![j] = clk]
    /\ request' = [request EXCEPT ![j] = Put(@, pid, Max(@[pid], clk))]

(* lines 270-273, under the monitor *)
RequestTokenStep(j, reqTime, pid) ==
    LET clk == Max(time[j] + 1, reqTime + 1) IN
    /\ time' = [time EXCEPT ![j] = clk]
    /\ request' = [request EXCEPT ![j] = Put(@, pid, Max(@[pid], clk))]

RequestToken(t) ==
    /\ pc[t] = "req_enter"
    /\ LET j == Head(todo[t]) IN
        /\ alive[j]
        /\ t \in DOMAIN request[j]
        /\ CanLock(j, FALSE)
        /\ RequestTokenStep(j, arg[t], t)
    /\ arg' = [arg EXCEPT ![t] = 0]
    /\ pc' = [pc EXCEPT ![t] = "req_check"]
    /\ UNCHANGED <<state, token, tokenNone, members, lock, todo, relAt, relTo, msg,
                   left, pureVars, failVars>>

(* line 274: self.state is read after the monitor was released *)
RequestCheck(t) ==
    /\ pc[t] = "req_check"
    /\ LET j == Head(todo[t]) IN
        IF state[j] = TOKEN_PRESENT
        THEN /\ pc' = [pc EXCEPT ![t] = "rel_enter"]
             /\ relAt' = [relAt EXCEPT ![t] = j]
        ELSE /\ pc' = [pc EXCEPT ![t] = "acq_ret"]
             /\ UNCHANGED relAt
    /\ UNCHANGED <<lockVars, todo, arg, relTo, msg, left, pureVars, failVars>>

(***************************************************************************)
(* release() on peer r: r = t for the client's own call and for the call   *)
(* made by destroy(), r = relAt[t] for the call made by request_token.     *)
(* lines 223-265                                                           *)
(***************************************************************************)
ReleaseReturn(t, r) ==
    IF r # t THEN "acq_ret" ELSE IF inDestroy[t] THEN "des_back" ELSE "idle"

(* lines 227-243: up to the lock.release() before the send, or to the return *)
ReleaseEnter(t) ==
    /\ pc[t] \in {"cs", "rel_enter", "des_rel"}
    /\ LET r == IF pc[t] = "rel_enter" THEN relAt[t] ELSE t
           clk == time[r] + 1
           held == state[r] = TOKEN_HELD
           tok == IF held THEN Put(token[r], r, clk) ELSE token[r]
           order == get_order(r, get_peers(r))
           k == FirstClaimant(order, request[r], tok)
       IN
        /\ CanLock(r, r = t)
        /\ time' = [time EXCEPT ![r] = clk]
        /\ token' = [token EXCEPT ![r] = tok]
        /\ IF state[r] = NO_TOKEN
           THEN \* line 235 is false: the function ends without lock.release()
                /\ lock' = [lock EXCEPT ![r] = IF r = t THEN "client" ELSE "dead"]
                /\ depth' = [depth EXCEPT ![r] = IF r = t THEN @ + 1 ELSE @]
                /\ pc' = [pc EXCEPT ![t] = ReleaseReturn(t, r)]
                /\ relAt' = [relAt EXCEPT ![t] = 0]
                /\ UNCHANGED <<state, relTo, relOrder>>
           ELSE /\ state' = [state EXCEPT ![r] = TOKEN_PRESENT]
                /\ IF k > 0
                   THEN /\ pc' = [pc EXCEPT ![t] = "rel_send"]
                        /\ relAt' = [relAt EXCEPT ![t] = r]
                        /\ relTo' = [relTo EXCEPT ![t] = k]
                        /\ relOrder' = [relOrder EXCEPT ![t] = After(order, k)]
                   ELSE \* nobody claims, or KeyError at line 240 handled by
                        \* lines 261-265: the function returns
                        /\ pc' = [pc EXCEPT ![t] = ReleaseReturn(t, r)]
                        /\ relAt' = [relAt EXCEPT ![t] = 0]
                        /\ UNCHANGED <<relTo, relOrder>>
                /\ UNCHANGED <<lock, depth>>
    /\ UNCHANGED <<request, tokenNone, members, todo, arg, msg, left, alive, inDestroy,
                   pureVars>>

(* line 244: self._prepare(self.token) is evaluated with the monitor released *)
ReleaseSend(t) ==
    /\ pc[t] = "rel_send"
    /\ msg' = [msg EXCEPT ![t] = _prepare(token[relAt[t]])]
    /\ pc' = [pc EXCEPT ![t] = "obt_enter"]
    /\ UNCHANGED <<lockVars, todo, arg, relAt, relTo, left, pureVars, failVars>>

(* line 246: the state written once obtain_token has returned *)
StateAfterSend_kept == TOKEN_PRESENT
StateAfterSend == NO_TOKEN

(* lines 245-248 and 264-265: back from obtain_token *)
ReleaseBack(t) ==
    /\ pc[t] = "rel_back"
    /\ LET r == relAt[t] IN
        /\ CanLock(r, r = t)
        /\ state' = [state EXCEPT ![r] = StateAfterSend]
        /\ pc' = [pc EXCEPT ![t] = ReleaseReturn(t, r)]
    /\ relAt' = [relAt EXCEPT ![t] = 0]
    /\ relTo' = [relTo EXCEPT ![t] = 0]
    /\ msg' = [msg EXCEPT ![t] = <<>>]
    /\ relOrder' = [relOrder EXCEPT ![t] = <<>>]
    /\ UNCHANGED <<time, request, token, tokenNone, members, lock, todo, arg, left,
                   depth, alive, inDestroy, pureVars>>

(***************************************************************************)
(* obtain_token(token) on peer k = relTo[t]. lines 278-297                 *)
(***************************************************************************)
ObtainTokenStep(k, wire) ==
    LET m == _unprepare(wire)
        merged == MergeToken(token[k], time[k] + 1, _prepare(m))
    IN
    /\ time' = [time EXCEPT ![k] = merged.time]
    /\ token' = [token EXCEPT ![k] = merged.token]
    /\ state' = [state EXCEPT ![k] = TOKEN_PRESENT]

ObtainToken(t) ==
    /\ pc[t] = "obt_enter"
    /\ LET k == relTo[t] IN
        /\ alive[k]
        /\ CanLock(k, FALSE)
        /\ ObtainTokenStep(k, msg[t])
        \* notify_all: a client of k blocked in wait() becomes runnable
        /\ pc' = [p \in Peers |-> IF p = t THEN "rel_back"
                                  ELSE IF p = k /\ pc[p] = "acq_wait" THEN "acq_woken"
                                  ELSE pc[p]]
    /\ UNCHANGED <<request, tokenNone, members, lock, todo, arg, relAt, relTo, msg,
                   left, pureVars, failVars>>

Step(t) ==
    \/ Start(t)
    \/ PeerListRegister(t)
    \/ RegisterPeer(t)
    \/ Initialize(t)
    \/ AcquireEnter(t)
    \/ AcquireSend(t)
    \/ RequestToken(t)
    \/ RequestCheck(t)
    \/ ReleaseEnter(t)
    \/ ReleaseSend(t)
    \/ ObtainToken(t)
    \/ ReleaseBack(t)
    \/ AcquireNext(t)
    \/ AcquireWake(t)

Next == \E t \in Peers : Step(t)

Spec == Init /\ [][Next]_vars

(***************************************************************************)
(* Fair scheduling: a thread that can take a step of an operation it is in *)
(* eventually takes it, and a client in its critical section eventually    *)
(* calls release().  Starting a peer or an acquire() is left to the       *)
(* environment.                                                            *)
(***************************************************************************)
ThreadStep(t) ==
    \/ PeerListRegister(t)
    \/ RegisterPeer(t)
    \/ Initialize(t)
    \/ AcquireSend(t)
    \/ RequestToken(t)
    \/ RequestCheck(t)
    \/ ReleaseEnter(t)
    \/ ReleaseSend(t)
    \/ ObtainToken(t)
    \/ ReleaseBack(t)
    \/ AcquireNext(t)
    \/ AcquireWake(t)

(* The liveness specifications run the first FairPeers peers. *)
FairPeerSet == 1..FairPeers

InitFair ==
    /\ InitLock
    /\ left = FairAcquires
    /\ pin = <<>>
    /\ pout = <<>>

NextFair == \E t \in FairPeerSet : Step(t)

FairSpec ==
    InitFair /\ [][NextFair]_vars /\ \A t \in FairPeerSet : WF_vars(ThreadStep(t))

(* Continuous contention: every client that can call acquire() does. *)
ContendSpec ==
    /\ InitFair /\ [][NextFair]_vars
    /\ \A t \in FairPeerSet : WF_vars(ThreadStep(t))
    /\ \A t \in FairPeerSet : WF_vars(Start(t) \/ AcquireEnter(t))

(***************************************************************************)
(* Peer failure and clean departure.  A crashed or departed peer answers   *)
(* no call: an outbound call to it raises in the caller.  An exception     *)
(* that leaves a handler reaches the remote caller as an exception too     *)
(* (orb.Request.process_request, orb.Stub.handle_server_response).         *)
(***************************************************************************)
Started == \A p \in Peers : pc[p] \notin {"unborn", "join", "join_lock", "init"}

(* del d[k] *)
Drop(d, k) == [x \in (DOMAIN d) \ {k} |-> d[x]]

(* acquire(), lines 203-205, under the monitor taken at line 202:           *)
(* del self.request[k]; del self.token[k]; self.peer_list.unregister_peer(k) *)
Evict(r, k) ==
    /\ request' = [request EXCEPT ![r] = Drop(@, k)]
    /\ token' = [token EXCEPT ![r] = Drop(@, k)]
    /\ members' = [members EXCEPT ![r] = @ \ {k}]

(* A handler thread serving a call of another peer is running on p. *)
FramesOn(p) ==
    \E t \in Peers \ {p} :
        \/ pc[t] = "req_check" /\ Head(todo[t]) = p
        \/ pc[t] \in {"rel_enter", "rel_send", "obt_enter", "rel_back", "rel_loop",
                      "rel_exc", "rel_del_req", "rel_del_tok", "rel_unreg"}
              /\ relAt[t] = p

(* Fail-stop of a peer that does not have the token and on which no handler *)
(* is running.                                                             *)
Stop(p) ==
    /\ Started
    /\ state[p] = NO_TOKEN
    /\ ~FramesOn(p)
    /\ Cardinality({q \in Peers : pc[q] = "crashed"}) < MaxCrashes
    /\ alive' = [alive EXCEPT ![p] = FALSE]
    /\ pc' = [pc EXCEPT ![p] = "crashed"]
    /\ UNCHANGED <<lockVars, todo, arg, relAt, relTo, msg, left, relOrder, depth,
                   inDestroy, pureVars>>

(* A peer dies while its client waits for the token in acquire(). *)
Crash(p) == pc[p] = "acq_wait" /\ Stop(p)

(* A peer dies while its client is outside acquire() and release(). *)
CrashIdle(p) == pc[p] = "idle" /\ Stop(p)

(* acquire(), lines 200-208: the request_token call raised *)
AcquireFail(t) ==
    /\ \/ pc[t] = "req_enter" /\ ~alive[Head(todo[t])]
       \/ pc[t] = "req_fail"
    /\ CanLock(t, TRUE)
    /\ LET j == Head(todo[t]) IN
        IF j \in DOMAIN request[t] /\ j \in DOMAIN token[t]
        THEN /\ Evict(t, j)
             /\ pc' = [pc EXCEPT ![t] = "acq_ret"]
             /\ UNCHANGED <<lock, depth>>
        ELSE \* KeyError at line 203 or 204, then the finally of line 208: the
             \* call raises with the monitor acquired at 202 and at 208
             /\ request' = [request EXCEPT ![t] = Drop(@, j)]
             /\ lock' = [lock EXCEPT ![t] = "client"]
             /\ depth' = [depth EXCEPT ![t] = @ + 2]
             /\ pc' = [pc EXCEPT ![t] = "raised"]
             /\ UNCHANGED <<token, members>>
    /\ arg' = [arg EXCEPT ![t] = 0]
    /\ UNCHANGED <<state, time, tokenNone, todo, relAt, relTo, msg, left, relOrder,
                   alive, inDestroy, pureVars>>

(* request_token(time, pid) on a peer that has removed pid: KeyError at    *)
(* line 272, after the clock update of line 271 and before the             *)
(* lock.release() of line 273, which is not reached.                       *)
RequestTokenUnknown(t) ==
    /\ pc[t] = "req_enter"
    /\ LET j == Head(todo[t]) IN
        /\ alive[j]
        /\ t \notin DOMAIN request[j]
        /\ CanLock(j, FALSE)
        /\ time' = [time EXCEPT ![j] = Max(@ + 1, arg[t] + 1)]
        /\ lock' = [lock EXCEPT ![j] = "dead"]
    /\ pc' = [pc EXCEPT ![t] = "req_fail"]
    /\ UNCHANGED <<state, request, token, tokenNone, members, todo, arg, relAt, relTo,
                   msg, left, pureVars, failVars>>

(* release(), the finally of line 265 reached after an exception: the      *)
(* monitor was given up at line 243 and not taken again, so lock.release() *)
(* succeeds only on a hold that the thread had before it entered.          *)
ReleaseUnwind(t, r) ==
    /\ IF r = t /\ depth[t] > 0
       THEN /\ depth' = [depth EXCEPT ![t] = @ - 1]
            /\ lock' = [lock EXCEPT ![t] = IF depth[t] = 1 THEN "free" ELSE @]
            /\ pc' = [pc EXCEPT ![t] = ReleaseReturn(t, r)]
       ELSE \* RuntimeError: cannot release un-acquired lock
            /\ pc' = [pc EXCEPT ![t] = IF r = t THEN "raised" ELSE "req_fail"]
            /\ UNCHANGED <<lock, depth>>
    /\ relAt' = [relAt EXCEPT ![t] = 0]
    /\ relTo' = [relTo EXCEPT ![t] = 0]
    /\ relOrder' = [relOrder EXCEPT ![t] = <<>>]
    /\ msg' = [msg EXCEPT ![t] = <<>>]

(***************************************************************************)
(* release(), lines 249-256: the handler of a failed send.  The monitor    *)
(* was given up at line 243 and is not taken again, so every statement of  *)
(* the block is a step of its own that other threads of the peer can       *)
(* interleave with.                                                        *)
(***************************************************************************)
(* line 244 raises: the recipient does not answer *)
ReleaseFail(t) ==
    /\ pc[t] = "obt_enter"
    /\ ~alive[relTo[t]]
    /\ pc' = [pc EXCEPT ![t] = "rel_exc"]
    /\ msg' = [msg EXCEPT ![t] = <<>>]
    /\ UNCHANGED <<lockVars, todo, arg, relAt, relTo, left, pureVars, failVars>>

(* line 252 *)
ReleaseExcept(t) ==
    /\ pc[t] = "rel_exc"
    /\ state' = [state EXCEPT ![relAt[t]] = TOKEN_PRESENT]
    /\ pc' = [pc EXCEPT ![t] = "rel_del_req"]
    /\ UNCHANGED <<time, request, token, tokenNone, members, lock, todo, arg, relAt,
                   relTo, msg, left, pureVars, failVars>>

(* line 253: del self.request[peer_id] *)
ReleaseDelRequest(t) ==
    /\ pc[t] = "rel_del_req"
    /\ LET r == relAt[t]
           k == relTo[t]
       IN
        IF k \in DOMAIN request[r]
        THEN /\ request' = [request EXCEPT ![r] = Drop(@, k)]
             /\ pc' = [pc EXCEPT ![t] = "rel_del_tok"]
             /\ UNCHANGED <<lock, depth, relAt, relTo, relOrder, msg>>
        ELSE \* KeyError: lines 261-265
             /\ ReleaseUnwind(t, r)
             /\ UNCHANGED request
    /\ UNCHANGED <<state, time, token, tokenNone, members, todo, arg, left, alive,
                   inDestroy, pureVars>>

(* line 254: del self.token[peer_id] *)
ReleaseDelToken(t) ==
    /\ pc[t] = "rel_del_tok"
    /\ LET r == relAt[t]
           k == relTo[t]
       IN
        IF k \in DOMAIN token[r]
        THEN /\ token' = [token EXCEPT ![r] = Drop(@, k)]
             /\ pc' = [pc EXCEPT ![t] = "rel_unreg"]
             /\ UNCHANGED <<lock, depth, relAt, relTo, relOrder, msg>>
        ELSE \* KeyError: lines 261-265
             /\ ReleaseUnwind(t, r)
             /\ UNCHANGED token
    /\ UNCHANGED <<state, time, request, tokenNone, members, todo, arg, left, alive,
                   inDestroy, pureVars>>

(* lines 255-256: self.peer_list.unregister_peer(peer_id), which drops the id *)
(* from the peer list under the monitor, then the next iteration              *)
ReleaseUnregister(t) ==
    /\ pc[t] = "rel_unreg"
    /\ LET r == relAt[t] IN
        /\ CanLock(r, r = t)
        /\ members' = [members EXCEPT ![r] = @ \ {relTo[t]}]
    /\ relTo' = [relTo EXCEPT ![t] = 0]
    /\ pc' = [pc EXCEPT ![t] = "rel_loop"]
    /\ UNCHANGED <<state, time, request, token, tokenNone, lock, todo, arg, relAt, msg,
                   left, pureVars, failVars>>

(* release(), lines 238-243 and 259-265: the loop after a failed send *)
ReleaseLoop(t) ==
    /\ pc[t] = "rel_loop"
    /\ LET r == relAt[t]
           p == Head(relOrder[t])
       IN
        IF relOrder[t] = <<>> \/ p \notin DOMAIN request[r] \/ p \notin DOMAIN token[r]
        THEN \* end of the loop, or KeyError at line 240
             /\ ReleaseUnwind(t, r)
        ELSE IF request[r][p] <= token[r][p]
        THEN /\ relOrder' = [relOrder EXCEPT ![t] = Tail(@)]
             /\ UNCHANGED <<lock, depth, pc, relAt, relTo, msg>>
        ELSE IF r = t /\ depth[t] > 0
        THEN \* line 243 gives up a hold left by an earlier call
             /\ depth' = [depth EXCEPT ![t] = @ - 1]
             /\ lock' = [lock EXCEPT ![t] = IF depth[t] = 1 THEN "free" ELSE @]
             /\ relTo' = [relTo EXCEPT ![t] = p]
             /\ relOrder' = [relOrder EXCEPT ![t] = Tail(@)]
             /\ pc' = [pc EXCEPT ![t] = "rel_send"]
             /\ UNCHANGED <<relAt, msg>>
        ELSE \* line 243 raises RuntimeError, handled by lines 249-256
             /\ relTo' = [relTo EXCEPT ![t] = p]
             /\ relOrder' = [relOrder EXCEPT ![t] = Tail(@)]
             /\ pc' = [pc EXCEPT ![t] = "rel_exc"]
             /\ UNCHANGED <<lock, depth, relAt, msg>>
    /\ UNCHANGED <<state, time, request, token, tokenNone, members, todo, arg, left,
                   alive, inDestroy, pureVars>>

(***************************************************************************)
(* destroy(). lines 128-161                                                *)
(***************************************************************************)
(* lines 135-139.  The environment calls destroy() on at most MaxDestroys   *)
(* peers, at a moment when no client of another peer is inside acquire() or *)
(* release().                                                               *)
DestroyEnter(t) ==
    /\ Started
    /\ pc[t] \in {"idle", "cs"}
    /\ Cardinality({q \in Peers : inDestroy[q]}) < MaxDestroys
    /\ Active \subseteq {t}
    /\ CanLock(t, TRUE)
    /\ time' = [time EXCEPT ![t] = @ + 1]
    /\ inDestroy' = [inDestroy EXCEPT ![t] = TRUE]
    /\ pc' = [pc EXCEPT ![t] = IF state[t] # NO_TOKEN THEN "des_rel" ELSE "leave"]
    /\ UNCHANGED <<state, request, token, tokenNone, members, lock, todo, arg, relAt,
                   relTo, msg, left, relOrder, depth, alive, pureVars>>

(* lines 141-150, after release() has returned *)
DestroyBack(t) ==
    /\ pc[t] = "des_back"
    /\ CanLock(t, TRUE)
    /\ LET order == get_order(t, get_peers(t)) IN
        IF state[t] = TOKEN_PRESENT /\ order # <<>>
        THEN /\ relOrder' = [relOrder EXCEPT ![t] = order]
             /\ pc' = [pc EXCEPT ![t] = "des_send"]
        ELSE /\ pc' = [pc EXCEPT ![t] = "leave"]
             /\ UNCHANGED relOrder
    /\ UNCHANGED <<lockVars, todo, arg, relAt, relTo, msg, left, depth, alive,
                   inDestroy, pureVars>>

(* line 151: self._prepare(self.token) is evaluated with the monitor released *)
DestroySend(t) ==
    /\ pc[t] = "des_send"
    /\ msg' = [msg EXCEPT ![t] = _prepare(token[t])]
    /\ relTo' = [relTo EXCEPT ![t] = Head(relOrder[t])]
    /\ pc' = [pc EXCEPT ![t] = "des_obt"]
    /\ UNCHANGED <<lockVars, todo, arg, relAt, left, relOrder, depth, alive,
                   inDestroy, pureVars>>

(* obtain_token on the peer chosen by destroy() *)
DestroyObtain(t) ==
    /\ pc[t] = "des_obt"
    /\ LET k == relTo[t] IN
        /\ alive[k]
        /\ CanLock(k, FALSE)
        /\ ObtainTokenStep(k, msg[t])
        /\ pc' = [p \in Peers |-> IF p = t THEN "des_sent"
                                  ELSE IF p = k /\ pc[p] = "acq_wait" THEN "acq_woken"
                                  ELSE pc[p]]
    /\ UNCHANGED <<request, tokenNone, members, lock, todo, arg, relAt, relTo, msg,
                   left, pureVars, failVars>>

(* lines 152-154 and 161 *)
DestroySent(t) ==
    /\ pc[t] = "des_sent"
    /\ CanLock(t, TRUE)
    /\ state' = [state EXCEPT ![t] = NO_TOKEN]
    /\ pc' = [pc EXCEPT ![t] = "leave"]
    /\ relTo' = [relTo EXCEPT ![t] = 0]
    /\ msg' = [msg EXCEPT ![t] = <<>>]
    /\ relOrder' = [relOrder EXCEPT ![t] = <<>>]
    /\ UNCHANGED <<time, request, token, tokenNone, members, lock, todo, arg, relAt,
                   left, depth, alive, inDestroy, pureVars>>

(* lines 155-159: the recipient is down, the next one is tried *)
DestroyFail(t) ==
    /\ pc[t] = "des_obt"
    /\ ~alive[relTo[t]]
    /\ CanLock(t, TRUE)
    /\ relOrder' = [relOrder EXCEPT ![t] = Tail(@)]
    /\ pc' = [pc EXCEPT ![t] = IF Tail(relOrder[t]) = <<>> THEN "leave" ELSE "des_send"]
    /\ relTo' = [relTo EXCEPT ![t] = 0]
    /\ msg' = [msg EXCEPT ![t] = <<>>]
    /\ UNCHANGED <<lockVars, todo, arg, relAt, left, depth, alive, inDestroy, pureVars>>

(***************************************************************************)
(* After destroy() the departing peer tells the peers it knows             *)
(* (unregister_peer) and stops.                                            *)
(***************************************************************************)
LeaveStart(t) ==
    /\ pc[t] = "leave"
    /\ get_peers(t) # <<>> \/ ~FramesOn(t)
    /\ todo' = [todo EXCEPT ![t] = get_peers(t)]
    /\ pc' = [pc EXCEPT ![t] = IF get_peers(t) = <<>> THEN "gone" ELSE "leaving"]
    /\ alive' = [alive EXCEPT ![t] = get_peers(t) # <<>>]
    /\ UNCHANGED <<lockVars, arg, relAt, relTo, msg, left, relOrder, depth, inDestroy,
                   pureVars>>

(* The peer list of r forgets the departing peer t, under the monitor of r, *)
(* before the lock of r is told (unregister_peer).  A peer that is down is  *)
(* skipped.                                                                 *)
PeerListUnregister(t) ==
    /\ pc[t] = "leaving"
    /\ Tail(todo[t]) # <<>> \/ ~FramesOn(t)
    /\ LET r == Head(todo[t]) IN
        \/ /\ alive[r]
           /\ CanLock(r, FALSE)
           /\ members' = [members EXCEPT ![r] = @ \ {t}]
           /\ pc' = [pc EXCEPT ![t] = "leaving_lock"]
           /\ UNCHANGED <<todo, alive>>
        \/ /\ ~alive[r]
           /\ todo' = [todo EXCEPT ![t] = Tail(@)]
           /\ pc' = [pc EXCEPT ![t] = IF Tail(todo[t]) = <<>> THEN "gone" ELSE "leaving"]
           /\ alive' = [alive EXCEPT ![t] = Tail(todo[t]) # <<>>]
           /\ UNCHANGED members
    /\ UNCHANGED <<state, time, request, token, tokenNone, lock, arg, relAt, relTo, msg,
                   left, relOrder, depth, inDestroy, pureVars>>

(* unregister_peer(pid) on peer r. lines 175-181 *)
UnregisterPeerStep(r, pid) ==
    /\ time' = [time EXCEPT ![r] = @ + 1]
    /\ IF pid \notin DOMAIN request[r]
       THEN \* KeyError at line 179: line 181 is not reached
            /\ lock' = [lock EXCEPT ![r] = "dead"]
            /\ UNCHANGED <<request, token>>
       ELSE IF pid \notin DOMAIN token[r]
       THEN \* KeyError at line 180: line 181 is not reached
            /\ request' = [request EXCEPT ![r] = Drop(@, pid)]
            /\ lock' = [lock EXCEPT ![r] = "dead"]
            /\ UNCHANGED token
       ELSE /\ request' = [request EXCEPT ![r] = Drop(@, pid)]
            /\ token' = [token EXCEPT ![r] = Drop(@, pid)]
            /\ UNCHANGED lock

UnregisterPeer(t) ==
    /\ pc[t] = "leaving_lock"
    /\ Tail(todo[t]) # <<>> \/ ~FramesOn(t)
    /\ LET r == Head(todo[t]) IN
        \/ /\ alive[r]
           /\ CanLock(r, FALSE)
           /\ UnregisterPeerStep(r, t)
        \/ /\ ~alive[r]
           /\ UNCHANGED <<time, request, token, lock>>
    /\ todo' = [todo EXCEPT ![t] = Tail(@)]
    /\ pc' = [pc EXCEPT ![t] = IF Tail(todo[t]) = <<>> THEN "gone" ELSE "leaving"]
    /\ alive' = [alive EXCEPT ![t] = Tail(todo[t]) # <<>>]
    /\ UNCHANGED <<state, tokenNone, members, arg, relAt, relTo, msg, left, relOrder,
                   depth, inDestroy, pureVars>>

(* The steps that follow a crash. *)
CrashStep(t) ==
    \/ Crash(t)
    \/ AcquireFail(t)
    \/ ReleaseFail(t)
    \/ ReleaseExcept(t)
    \/ ReleaseDelRequest(t)
    \/ ReleaseDelToken(t)
    \/ ReleaseUnregister(t)
    \/ ReleaseLoop(t)

(* Peers crash, nobody departs. *)
InitFail ==
    /\ InitLock
    /\ left = FailAcquires
    /\ pin = <<>>
    /\ pout = <<>>

NextFail == \E t \in Peers : Step(t) \/ CrashStep(t) \/ RequestTokenUnknown(t)

SpecFail == InitFail /\ [][NextFail]_vars

(* The steps of a clean departure. *)
DestroyStep(t) ==
    \/ CrashIdle(t)
    \/ DestroyEnter(t)
    \/ DestroyBack(t)
    \/ DestroySend(t)
    \/ DestroyObtain(t)
    \/ DestroySent(t)
    \/ DestroyFail(t)
    \/ LeaveStart(t)
    \/ PeerListUnregister(t)
    \/ UnregisterPeer(t)

(* Peers crash and depart.  With DestroyAcquires calls of acquire() no peer *)
(* removes a live peer that goes on to send it a request.                  *)
InitDestroy ==
    /\ InitLock
    /\ left = DestroyAcquires
    /\ pin = <<>>
    /\ pout = <<>>

NextDestroy == \E t \in Peers : Step(t) \/ CrashStep(t) \/ DestroyStep(t)

SpecDestroy == InitDestroy /\ [][NextDestroy]_vars

(***************************************************************************)
(* The hand-off choice of release() as a function of one peer's view:      *)
(* own id, membership, request and token vectors.                          *)
(***************************************************************************)
OrderInputs ==
    UNION {
        UNION {
            {[own |-> o, peers |-> ps, request |-> rq, token |-> tk] :
                rq \in [ps \cup {o} -> 0..OrderStamp],
                tk \in [ps \cup {o} -> 0..OrderStamp]} :
            ps \in SUBSET ((1..OrderPeers) \ {o})} :
        o \in 1..OrderPeers}

InitOrder ==
    /\ InitLock
    /\ left = 0
    /\ pin \in OrderInputs
    /\ pout = [done |-> FALSE, order |-> <<>>, to |-> 0]

(* lines 236-244: the order and the first peer of it that is sent the token *)
SelectRecipient ==
    /\ ~pout.done
    /\ LET order == get_order(pin.own, Ascending(pin.peers)) IN
        pout' = [done |-> TRUE, order |-> order,
                 to |-> FirstClaimant(order, pin.request, pin.token)]
    /\ UNCHANGED <<lockVars, threadVars, failVars, pin>>

SpecOrder == InitOrder /\ [][SelectRecipient]_vars

(***************************************************************************)
(* The wire form of the token: _prepare on the sender, _unprepare on the   *)
(* receiver.                                                               *)
(***************************************************************************)
WireInputs == UNION {[ks -> 0..WireStamp] : ks \in SUBSET (1..WireKeys)}

InitWire ==
    /\ InitLock
    /\ left = 0
    /\ pin \in WireInputs
    /\ pout = [done |-> FALSE, wire |-> <<>>, back |-> <<>>]

RoundTrip ==
    /\ ~pout.done
    /\ pout' = [done |-> TRUE, wire |-> _prepare(pin),
                back |-> _unprepare(_prepare(pin))]
    /\ UNCHANGED <<lockVars, threadVars, failVars, pin>>

SpecWire == InitWire /\ [][RoundTrip]_vars

(* Type and domain sanity of the model. *)
TypeOK ==
    /\ \A p \in Peers : state[p] \in {NO_TOKEN, TOKEN_PRESENT, TOKEN_HELD}
    /\ \A p \in Peers : lock[p] \in {"free", "client", "dead"}
    /\ \A p \in Peers : depth[p] \in Nat /\ (lock[p] = "client" => depth[p] > 0)
    /\ \A p \in Peers : ~tokenNone[p] =>
          /\ DOMAIN request[p] \subseteq DOMAIN token[p]
          /\ \A q \in DOMAIN request[p] : request[p][q] <= time[p]
    /\ \A t \in Peers : pc[t] \in {"req_enter", "req_check"} =>
          /\ todo[t] # <<>>
          /\ ~tokenNone[Head(todo[t])]
    /\ \A t \in Peers : pc[t] \in {"rel_send", "obt_enter", "rel_back"} =>
          /\ relAt[t] \in Peers /\ relTo[t] \in Peers
          /\ ~tokenNone[relTo[t]]

(***************************************************************************)
(* C1. Mutual exclusion: in every reachable state at most one peer has     *)
(* state = TOKEN_HELD.                                                     *)
(***************************************************************************)
MutualExclusion == Cardinality({p \in Peers : state[p] = TOKEN_HELD}) <= 1

(***************************************************************************)
(* C2. Single token: in every reachable state at most one peer has state   *)
(* TOKEN_PRESENT or TOKEN_HELD.                                            *)
(***************************************************************************)
SingleToken == Cardinality({p \in Peers : state[p] # NO_TOKEN}) <= 1

(* The second half of C2 on its own: two forwarding passes that run on the *)
(* same holder at the same time never send to two different peers.         *)
NoDoubleDelivery ==
    \A s, t \in Peers :
        (/\ s # t
         /\ pc[s] \in {"rel_send", "obt_enter", "rel_back"}
         /\ pc[t] \in {"rel_send", "obt_enter", "rel_back"}
         /\ relAt[s] = relAt[t]) => relTo[s] = relTo[t]

Acquiring(t) ==
    \/ pc[t] \in {"acq_send", "req_enter", "req_check", "acq_ret", "acq_wait",
                  "acq_woken"}
    \/ pc[t] \in {"rel_enter", "rel_send", "obt_enter", "rel_back"} /\ relAt[t] # t

(***************************************************************************)
(* C3. Liveness of acquire: with every peer alive and reachable, fair      *)
(* scheduling and every holder eventually calling release(), an acquire()  *)
(* that was called eventually returns, with the peer in TOKEN_HELD.        *)
(***************************************************************************)
AcquireReturns ==
    \A t \in Peers : Acquiring(t) ~> (pc[t] = "cs" /\ state[t] = TOKEN_HELD)

(***************************************************************************)
(* C4. Starvation-freedom: when the clients keep calling acquire() and     *)
(* release(), with no failure and fair scheduling, every peer is in        *)
(* TOKEN_HELD again and again, for as long as the clients have calls left. *)
(***************************************************************************)
NoStarvation ==
    \A p \in FairPeerSet : []<>(state[p] = TOKEN_HELD \/ left = 0)

Claimants(in) == {p \in in.peers : in.request[p] > in.token[p]}
Least(S) == CHOOSE x \in S : \A y \in S : x <= y
PriorityChoice(in) ==
    LET above == {p \in Claimants(in) : p > in.own}
        below == {p \in Claimants(in) : p < in.own}
    IN  IF above # {} THEN Least(above)
        ELSE IF below # {} THEN Least(below)
        ELSE 0

(***************************************************************************)
(* C5. Hand-off priority: release() sends the token to the first peer, in  *)
(* the order "ids above the own id ascending, then ids below it            *)
(* ascending", whose request exceeds its token entry, and to nobody when   *)
(* there is none; with peers {1,2,3,4}, holder 2 and requests outstanding  *)
(* from 4 and 1 only, it goes to 4.                                        *)
(***************************************************************************)
HandOffPriority ==
    pout.done =>
        /\ pout.to = PriorityChoice(pin)
        /\ (pin.own = 2 /\ pin.peers = {1, 3, 4} /\ Claimants(pin) = {1, 4})
               => pout.to = 4

HandOffPriorityWitness ==
    /\ pout.done
    /\ pin.own = 2 /\ pin.peers = {1, 3, 4} /\ Claimants(pin) = {1, 4}
    /\ pout.to = 4

NoClaimant(r) ==
    \A p \in members[r] \cap DOMAIN request[r] \cap DOMAIN token[r] :
        request[r][p] <= token[r][p]

(***************************************************************************)
(* C6. When release() comes back from an obtain_token call that returned   *)
(* without error, it leaves the releasing peer in NO_TOKEN; when release() *)
(* runs on a peer that has the token and no member has request > token, it *)
(* returns at once with the peer in TOKEN_PRESENT and sends nothing.       *)
(***************************************************************************)
ReleaseOutcome ==
    [][\A t \in Peers :
        LET r == IF pc[t] \in {"cs", "des_rel"} THEN t ELSE relAt[t] IN
        /\ (pc[t] = "rel_back" /\ pc'[t] # "rel_back")
               => (state'[r] = NO_TOKEN /\ pc'[t] \in {"idle", "acq_ret"})
        /\ (/\ pc[t] \in {"cs", "rel_enter"}
            /\ pc'[t] # pc[t]
            /\ state[r] # NO_TOKEN
            /\ CanLock(r, r = t)
            /\ NoClaimant(r))
               => (/\ state'[r] = TOKEN_PRESENT
                   /\ pc'[t] \in {"idle", "acq_ret"}
                   /\ relTo'[t] = 0
                   /\ msg' = msg)]_vars

ReleaseOutcomeWitness ==
    /\ \E t \in Peers :
        /\ pc[t] = "rel_back"
        /\ state[relTo[t]] # NO_TOKEN
        /\ state[relAt[t]] = TOKEN_PRESENT
        /\ CanLock(relAt[t], relAt[t] = t)
    /\ \E s \in Peers :
        /\ pc[s] = "cs"
        /\ state[s] = TOKEN_HELD
        /\ members[s] # {}
        /\ NoClaimant(s)
        /\ CanLock(s, TRUE)

Received(k, wire) ==
    /\ state[k] = TOKEN_PRESENT
    /\ \A i \in 1..Len(wire) :
          /\ time[k] > wire[i][2]
          /\ wire[i][1] \in DOMAIN token[k]
          /\ token[k][wire[i][1]] = wire[i][2]

(***************************************************************************)
(* C7. When obtain_token(tok) completes on a peer, whatever its state was, *)
(* the peer is in TOKEN_PRESENT, its clock is above every timestamp of     *)
(* tok, its token vector has tok's value at every received id, and a       *)
(* client blocked in wait() has been notified.                             *)
(***************************************************************************)
ObtainTokenOutcome ==
    [][\A t \in Peers :
        (pc[t] = "obt_enter" /\ pc'[t] = "rel_back") =>
            /\ Received(relTo[t], msg[t])'
            /\ pc[relTo[t]] = "acq_wait" => pc'[relTo[t]] = "acq_woken"]_vars

ObtainTokenOutcomeWitness ==
    \E t \in Peers :
        /\ pc[t] = "rel_back"
        /\ pc[relTo[t]] = "acq_woken"
        /\ Received(relTo[t], msg[t])
        /\ \E i \in 1..Len(msg[t]) : msg[t][i][2] > 0

(***************************************************************************)
(* C8. Token timestamps are monotone: no entry token[p] of the vector of a *)
(* peer that has the token (state # NO_TOKEN) ever decreases.              *)
(***************************************************************************)
TokenMonotone ==
    [][\A a \in Peers : (state[a] # NO_TOKEN /\ state'[a] # NO_TOKEN) =>
          \A p \in DOMAIN token[a] : token'[a][p] >= token[a][p]]_vars

(***************************************************************************)
(* C9. request_token(t, pid) leaves request[pid] unchanged when the stored *)
(* value already exceeds t.                                                *)
(***************************************************************************)
RequestIdempotent ==
    [][\A t \in Peers :
        (pc[t] = "req_enter" /\ pc'[t] = "req_check") =>
            LET j == Head(todo[t]) IN
            request[j][t] > arg[t] => request'[j][t] = request[j][t]]_vars

(***************************************************************************)
(* C10. Wire round trip: _unprepare(_prepare(m)) has exactly the key-value *)
(* pairs of m, with integer keys.                                          *)
(***************************************************************************)
WireRoundTrip ==
    pout.done =>
        /\ DOMAIN pout.back = DOMAIN pin
        /\ DOMAIN pout.back \subseteq Int
        /\ \A k \in DOMAIN pin : pout.back[k] = pin[k]
        /\ Len(pout.wire) = Cardinality(DOMAIN pin)

WireRoundTripWitness ==
    /\ pout.done
    /\ Cardinality(DOMAIN pin) >= 2
    /\ \E k \in DOMAIN pin : pin[k] > 0
    /\ pout.back = pin

(***************************************************************************)
(* C11. Failure handling: when an outbound call to a peer D raises inside  *)
(* release() or acquire(), D and only D leaves request, token and the      *)
(* membership, and the operation goes on: release() sends the token to the *)
(* next reachable candidate with request > token, acquire() goes on to the *)
(* remaining peers.                                                        *)
(***************************************************************************)
FailureHandling ==
    [][/\ \A r \in Peers : \A p \in members[r] \ members'[r] :
              /\ ~alive[p]
              /\ p \notin DOMAIN request'[r]
              /\ p \notin DOMAIN token'[r]
       /\ \A t \in Peers :
              (pc[t] = "rel_loop" /\ relOrder[t] # <<>> /\ relOrder'[t] # relOrder[t]) =>
                  LET r == relAt[t]
                      p == Head(relOrder[t])
                  IN  (/\ alive[p]
                       /\ p \in DOMAIN request[r]
                       /\ request[r][p] > token[r][p])
                          => (pc'[t] = "rel_send" /\ relTo'[t] = p)
       /\ \A t \in Peers :
              (pc[t] = "req_enter" /\ ~alive[Head(todo[t])] /\ pc'[t] # pc[t]) =>
                  /\ pc'[t] = "acq_ret"
                  /\ members'[t] = members[t] \ {Head(todo[t])}
                  /\ todo'[t] = todo[t]]_vars

(* The client of t is inside a destroy() that found the token on its peer. *)
InDestroyWithToken(t) ==
    /\ inDestroy[t]
    /\ \/ pc[t] \in {"des_rel", "des_back", "des_send", "des_obt", "des_sent"}
       \/ pc[t] \in {"rel_send", "obt_enter", "rel_back", "rel_loop", "rel_exc",
                      "rel_del_req", "rel_del_tok", "rel_unreg"} /\ relAt[t] = t

(***************************************************************************)
(* C12. destroy() does not lose the token: when destroy() was called on a  *)
(* peer in TOKEN_HELD or TOKEN_PRESENT and another peer is reachable, then *)
(* at the end of destroy() the peer is in NO_TOKEN and exactly one other   *)
(* peer has the token; a recipient that cannot be reached is skipped and   *)
(* stays in request and token.                                             *)
(***************************************************************************)
DestroyKeepsToken ==
    [][\A t \in Peers :
        /\ (/\ InDestroyWithToken(t)
            /\ ~InDestroyWithToken(t)'
            /\ \E p \in Peers \ {t} : alive[p])
               => (/\ pc'[t] = "leave"
                   /\ state'[t] = NO_TOKEN
                   /\ Cardinality({p \in Peers \ {t} : state'[p] # NO_TOKEN}) = 1)
        /\ (pc[t] = "des_obt" /\ pc'[t] # "des_obt" /\ ~alive[relTo[t]])
               => (request'[t] = request[t] /\ token'[t] = token[t])]_vars

(***************************************************************************)
(* C13. acquire(), release() and destroy() are total: in no reachable      *)
(* state, failed outbound calls and concurrent membership changes          *)
(* included, has one of them raised an error to its caller.                *)
(***************************************************************************)
NoErrorSurfaced == \A t \in Peers : pc[t] # "raised"

(* Peers A = 1 and B = 2 are up, no third peer has started, the client of A *)
(* has never called acquire(), and the only acquire() so far is B's.        *)
S2Running ==
    /\ pc[3] = "unborn"
    /\ pc[1] = "idle"
    /\ pc[2] \notin {"unborn", "join", "join_lock", "init"}
    /\ left = MaxAcquires - 1
    /\ token[1][1] = 0

(***************************************************************************)
(* C14. Scenario S2: A registered first and has the token idle, B second.  *)
(* B calls acquire() and then release(): B sends request_token(1, B) to A; *)
(* A sets request[B] = 1 and forwards obtain_token({A:0, B:0}) to B; B is  *)
(* TOKEN_HELD with token[B] = 2; after release() token[B] = 3 and B is     *)
(* TOKEN_PRESENT.                                                          *)
(***************************************************************************)
ScenarioS2 ==
    S2Running =>
        /\ pc[2] = "req_enter" => (arg[2] = 1 /\ Head(todo[2]) = 1)
        /\ pc[2] = "req_check" => request[1][2] = 1
        /\ pc[2] = "obt_enter" =>
              (/\ relAt[2] = 1 /\ relTo[2] = 2
               /\ _unprepare(msg[2]) = (1 :> 0) @@ (2 :> 0))
        /\ pc[2] = "cs" => (state[2] = TOKEN_HELD /\ token[2][2] = 2)
        /\ pc[2] = "idle" => (state[2] = TOKEN_PRESENT /\ token[2][2] = 3)

(***************************************************************************)
(* C15. Bootstrap: initialize() on a peer that knows no other peer gives   *)
(* state = TOKEN_PRESENT, request = {own: 0}, token = {own: 0};            *)
(* initialize() on a peer that knows other peers gives state = NO_TOKEN    *)
(* and request 0 for itself and every member; register_peer(q) sets        *)
(* request[q] = token[q] = 0 and leaves state alone.  So once the peers    *)
(* have registered one after another, the first peer and no other has the  *)
(* token.                                                                  *)
(***************************************************************************)
Bootstrap ==
    [][/\ \A q \in Peers :
            /\ (pc[q] = "init" /\ pc'[q] = "idle") =>
                  IF members[q] = {}
                  THEN /\ state'[q] = TOKEN_PRESENT
                       /\ request'[q] = (q :> 0)
                       /\ token'[q] = (q :> 0)
                  ELSE /\ state'[q] = NO_TOKEN
                       /\ DOMAIN request'[q] = members[q] \cup {q}
                       /\ \A p \in members[q] \cup {q} : request'[q][p] = 0
            /\ (pc[q] = "join_lock" /\ todo'[q] # todo[q]) =>
                  LET r == Head(todo[q]) IN
                  /\ request'[r][q] = 0
                  /\ token'[r][q] = 0
                  /\ state'[r] = state[r]
       /\ left' = MaxAcquires =>
            \A p \in Peers :
                state'[p] # NO_TOKEN <=> (p = 1 /\ pc'[1] \notin {"unborn", "init"})]_vars

BootstrapWitness ==
    /\ Started
    /\ left = MaxAcquires
    /\ state = <<TOKEN_PRESENT, NO_TOKEN, NO_TOKEN>>
    /\ \A p \in Peers : request[p] = <<0, 0, 0>>
    /\ token[1] = <<0, 0, 0>>

(***************************************************************************)
(* C16. Monitor release on all exit paths: every operation returns with    *)
(* the monitor not held by the thread that ran it, so between the          *)
(* monitor-protected steps of the operations no thread owns the monitor of *)
(* any peer; this includes release() entered with state = NO_TOKEN.        *)
(***************************************************************************)
MonitorBalanced == \A p \in Peers : lock[p] = "free" /\ depth[p] = 0

(* The peer whose fields the next step of thread t reads or writes at a   *)
(* position where the code has released the monitor, 0 at other positions: *)
(* line 198 (self.time), line 274 (self.state), line 244 (self.token), and *)
(* lines 240-256 after a failed send.                                      *)
OpenAccess(t) ==
    IF pc[t] = "acq_send" THEN t
    ELSE IF pc[t] = "req_check" THEN Head(todo[t])
    ELSE IF pc[t] = "rel_send" THEN relAt[t]
    ELSE IF pc[t] \in {"rel_loop", "rel_exc", "rel_del_req", "rel_del_tok"} THEN relAt[t]
    ELSE 0

(***************************************************************************)
(* C17. Every read or write of state, clock, request, token and the        *)
(* membership is made by a thread that holds the peer's monitor: no thread *)
(* takes such a step on a peer while another thread owns that peer's       *)
(* monitor.  In particular the state test of request_token and the         *)
(* eviction of release() after a failed obtain_token.                      *)
(***************************************************************************)
AccessUnderMonitor ==
    [][\A t \in Peers :
        (OpenAccess(t) # 0 /\ pc'[t] # pc[t]) =>
            CanLock(OpenAccess(t), OpenAccess(t) = t)]_vars

(* The client thread of t is blocked in a call to another peer: in          *)
(* request_token (line 198), which lasts while the remote handler runs its  *)
(* release(), or in obtain_token (lines 244 and 151).                       *)
InOutboundCall(t) ==
    \/ pc[t] \in {"req_enter", "req_check", "req_fail"}
    \/ pc[t] \in {"rel_enter", "rel_send", "obt_enter", "rel_back", "rel_loop",
                  "rel_exc", "rel_del_req", "rel_del_tok", "rel_unreg"}
          /\ relAt[t] # t
    \/ pc[t] = "obt_enter" /\ relAt[t] = t
    \/ pc[t] = "des_obt"

(***************************************************************************)
(* C18.  No thread holds its peer's monitor while it is blocked in an      *)
(* outbound request_token or obtain_token call: the client thread of a     *)
(* peer that is inside such a call has no hold on the peer's monitor.      *)
(***************************************************************************)
NoMonitorDuringCall ==
    \A t \in Peers : InOutboundCall(t) => depth[t] = 0


(* The peer on which thread t starts an operation in this step (its first  *)
(* statement under the monitor runs), 0 when the step starts none.         *)
EntersOn(t) ==
    IF pc'[t] = pc[t] /\ todo'[t] = todo[t] THEN 0
    ELSE IF pc[t] = "idle" /\ pc'[t] \in {"acq_send", "acq_wait", "cs"} THEN t
    ELSE IF pc[t] \in {"idle", "cs"} /\ pc'[t] \in {"des_rel", "leave"} THEN t
    ELSE IF pc[t] \in {"cs", "des_rel"} THEN t
    ELSE IF pc[t] = "rel_enter" THEN relAt[t]
    ELSE IF pc[t] = "join_lock" THEN Head(todo[t])
    ELSE IF pc[t] = "leaving_lock" /\ alive[Head(todo[t])] THEN Head(todo[t])
    ELSE IF pc[t] = "req_enter" /\ pc'[t] \in {"req_check", "req_fail"}
    THEN Head(todo[t])
    ELSE IF pc[t] = "obt_enter" /\ pc'[t] = "rel_back" THEN relTo[t]
    ELSE IF pc[t] = "des_obt" /\ pc'[t] = "des_sent" THEN relTo[t]
    ELSE 0

(***************************************************************************)
(* C19.  Logical clock monotonicity: no step lowers a peer's clock; the    *)
(* step with which acquire, release, register_peer, unregister_peer,       *)
(* request_token, obtain_token or destroy starts on a peer raises that     *)
(* peer's clock, so that the clock is greater at the end of the operation  *)
(* than at its start; and after request_token(time, pid) the clock is      *)
(* greater than the time received.                                         *)
(***************************************************************************)
ClockMonotone ==
    [][/\ \A p \in Peers : time'[p] >= time[p]
       /\ \A t \in Peers :
            EntersOn(t) # 0 => time'[EntersOn(t)] > time[EntersOn(t)]
       /\ \A t \in Peers :
            (pc[t] = "req_enter" /\ pc'[t] = "req_check") =>
                time'[Head(todo[t])] > arg[t]]_vars

(* request_token has run on a peer whose clock it set from the time        *)
(* received, and a peer has left through destroy().                        *)
ClockMonotoneWitness ==
    /\ \E t \in Peers :
        /\ pc[t] = "req_check"
        /\ time[t] >= 2
        /\ time[Head(todo[t])] = time[t] + 1
    /\ \E q \in Peers : pc[q] = "gone"


(* A thread is between two statements of a sequence that changes the      *)
(* vectors and the peer list of p one after the other: the handler of a    *)
(* failed send in release() (lines 252-255), or the registry's update of   *)
(* the peer list followed by register_peer / unregister_peer.              *)
MutatorOn(p) ==
    \E t \in Peers :
        \/ pc[t] \in {"rel_exc", "rel_del_req", "rel_del_tok", "rel_unreg"}
              /\ relAt[t] = p
        \/ pc[t] \in {"join_lock", "leaving_lock"} /\ Head(todo[t]) = p

(***************************************************************************)
(* C20.  Vector domains track membership: once every peer has started, on  *)
(* every running peer on which no mutator is at work, the ids of the       *)
(* request vector are the peer's members and its own id, and while the     *)
(* peer has the token the token vector has the same ids; obtain_token adds *)
(* no id the receiver does not know.                                       *)
(***************************************************************************)
VectorDomains ==
    Started =>
        \A p \in Peers :
            (alive[p] /\ pc[p] # "raised" /\ ~MutatorOn(p)) =>
                /\ DOMAIN request[p] = members[p] \cup {p}
                /\ state[p] # NO_TOKEN => DOMAIN token[p] = DOMAIN request[p]

(***************************************************************************)
(* C21.  On every peer that has run initialize(), the token vector is      *)
(* defined exactly when the state is TOKEN_PRESENT or TOKEN_HELD: a peer   *)
(* in NO_TOKEN has no token vector.                                        *)
(***************************************************************************)
TokenDefinedIffHeld ==
    \A p \in Peers :
        pc[p] \notin {"unborn", "join", "join_lock", "init"} =>
            (state[p] # NO_TOKEN <=> ~tokenNone[p])


(***************************************************************************)
(* C22.  request[p] > token[p] means an outstanding request: in the step   *)
(* in which a release() chooses p and gives up the monitor to send it the  *)
(* token, the client of p is inside an acquire() that has not returned.    *)
(***************************************************************************)
ForwardOnlyToRequester ==
    [][\A t \in Peers :
        (pc[t] # "rel_send" /\ pc'[t] = "rel_send") =>
            Acquiring(relTo'[t])]_vars


(***************************************************************************)
(* C23.  Critical-section retention: from the return of acquire() on a     *)
(* peer until its client calls release(), the peer's state is TOKEN_HELD   *)
(* and no release() running on the peer is sending its token away.         *)
(***************************************************************************)
CriticalSectionRetention ==
    \A p \in Peers :
        pc[p] = "cs" =>
            /\ state[p] = TOKEN_HELD
            /\ \A s \in Peers :
                 pc[s] \in {"rel_send", "obt_enter"} => relAt[s] # p


(***************************************************************************)
(* C24.  Token conservation: with no crash and no destroy, once the first  *)
(* peer has initialised, every reachable state has at least one peer whose *)
(* state is not NO_TOKEN.                                                  *)
(***************************************************************************)
TokenConservation ==
    pc[1] \notin {"unborn", "join", "join_lock", "init"} =>
        \E p \in Peers : state[p] # NO_TOKEN

====
